---- MODULE Spec2Model ----
(***************************************************************************)
(* lazy-iters: the lazy combinator engine over synchronous and             *)
(* asynchronous sources.  Three implementations live in the repository:    *)
(*   "sync"   the validating synchronous engine (isIterator, zip, ...),    *)
(*   "legacy" src/iter/sync.js, the synchronous engine that lib.js loads,  *)
(*   "async"  src/iter/async.js.                                           *)
(* A pipeline is a source, a chain of suspended generator frames built by  *)
(* the intermediate methods, and one terminal operation that pulls the top *)
(* of the chain one element per step.                                      *)
(***************************************************************************)
EXTENDS Integers, Sequences, FiniteSets, TLC

VARIABLES
  engine,   \* which implementation built the wrapper ("none" before construction)
  srcs,     \* the source objects: srcs[1] the wrapped source, srcs[2] the argument of zip
  chain,    \* generator frames, chain[1] consuming srcs[1], chain[k+1] consuming chain[k]
  phase,    \* "new" | "build" | "running" | "done" | "failed"
  term,     \* the terminal operation in progress
  result,   \* what the terminal operation returned
  calls,    \* the user callbacks invoked so far, in order: <<name, argument>>
  thrown    \* the error that escaped ("none" when none did)

vars == <<engine, srcs, chain, phase, term, result, calls, thrown>>

(* ------------------------------ bounds -------------------------------- *)
MaxLen == 2     \* longest source sequence
MaxElem == 2    \* elements are 1..MaxElem
MaxN == 5       \* largest argument of take / skip / nth
MaxChain == 2   \* intermediate calls in one chain

(* --------------------------- JavaScript values ------------------------ *)
Num(n) == [num |-> n]
Bool(b) == [bool |-> b]
Undefined == [undefined |-> TRUE]
Null == [null |-> TRUE]
PlainObject == [object |-> TRUE]
\* the result of + on a non-number operand (a string or NaN)
Coerced == [coerced |-> TRUE]
\* an array literal, or a fresh finite iterable yielding s
Arr(s) == [arr |-> s]
\* an Iterator / AsyncIterator instance: its only field is iter
Wrapper(it) == [iter |-> it]
\* the generator object a combinator was handed as its iter argument
IterObj == [generator |-> TRUE]

IsNum(v) == "num" \in DOMAIN v
IsArr(v) == "arr" \in DOMAIN v
\* x instanceof Iterator
IsWrapper(v) == "iter" \in DOMAIN v

\* ToNumber of the operand of % and > : a number, or NaN
RECURSIVE ToNumber(_)
ToNumber(v) ==
  IF IsNum(v) THEN v
  ELSE IF IsArr(v) /\ Len(v.arr) = 0 THEN Num(0)
  ELSE IF IsArr(v) /\ Len(v.arr) = 1 THEN ToNumber(v.arr[1])
  ELSE [nan |-> TRUE]

(* --------------------------- user callbacks --------------------------- *)
\* the transforms handed to map / flatMap / use / forEach
F(f, x) ==
  CASE f = "inc" -> IF IsNum(x) THEN Num(x.num + 1) ELSE Coerced   \* x => x + 1
    [] f = "one" -> Num(1)                                         \* _ => 1
    [] f = "dup" -> Arr(<<x, x>>)                                  \* x => [x, x]
    [] f = "wrapdup" -> Wrapper(Arr(<<x, x>>))                     \* x => iterator([x, x])
    [] f = "tick" -> Undefined                                     \* _ => { i++ }
    [] f = "add" -> IF IsArr(x) /\ Len(x.arr) = 2 /\ IsNum(x.arr[1]) /\ IsNum(x.arr[2])
                    THEN Num(x.arr[1].num + x.arr[2].num) ELSE Coerced   \* (a, b) => a + b
    [] OTHER -> Undefined

\* the predicates handed to filter / any / all
P(p, x) ==
  CASE p = "even" -> IsNum(ToNumber(x)) /\ ToNumber(x).num % 2 = 0   \* x => x % 2 == 0
    [] p = "odd" -> IsNum(ToNumber(x)) /\ ToNumber(x).num % 2 # 0    \* x => x % 2 != 0
    [] p = "gt1" -> IsNum(ToNumber(x)) /\ ToNumber(x).num > 1        \* x => x > 1
    [] p = "true" -> TRUE                                            \* _ => true
    [] OTHER -> FALSE                                                \* _ => false

\* (sum, x) => sum + x
Plus(a, b) == IF IsNum(a) /\ IsNum(b) THEN Num(a.num + b.num) ELSE Coerced

(* ------------------------------ sources ------------------------------- *)
\* kind: "array", "generator", "asyncgen", "positives" (endless 1, 2, 3, ...), or a
\* value that cannot be iterated: "null", "number", "object", "wrapper".
\* pos / closed are the state of a generator object; pulls counts the elements the
\* source has delivered.
Source(kind, data) ==
  [kind |-> kind, data |-> data, pos |-> 0, closed |-> FALSE, pulls |-> 0]

NoSource == Source("null", <<>>)

\* typeof obj[Symbol.iterator] === 'function'
HasSymbolIterator(s) == s.kind \in {"array", "generator", "positives"}
\* typeof obj[Symbol.asyncIterator] === 'function'
HasSymbolAsyncIterator(s) == s.kind \in {"asyncgen"}

\* isIterator without its typeof test: anything but null passes
isIteratorNotNull(obj) == obj.kind # "null"

isIterator(obj) == obj.kind # "null" /\ HasSymbolIterator(obj)
isAsyncIterator(obj) == obj.kind # "null" /\ HasSymbolAsyncIterator(obj)

\* whether for ... of (for await ... of in the asynchronous engine) can iterate s
Iterable(e, s) ==
  IF e = "async" THEN HasSymbolAsyncIterator(s) \/ HasSymbolIterator(s)
  ELSE HasSymbolIterator(s)

\* whether s has a next method of its own (arrays do not)
HasNext(s) == s.kind \in {"generator", "asyncgen", "positives"}

\* the step object a next() call returns
IterResult(done, value) == [done |-> done, value |-> value]

(* ------------------------- generator frames --------------------------- *)
\* Calling a function* (async function*) only creates the generator object: its body
\* does not run until the first next().  The fields are the locals of the bodies:
\* it (index of the array iterator for...of holds when the frame consumes an array),
\* i (take, skip), idx (the n of enumerate), first and x (intersperse), yielded,
\* j and depth (loop), inner and j (the sequence yield* is delegating to).
Generator(op) ==
  [op |-> op, state |-> "suspendedStart", n |-> 0, f |-> "none", delim |-> Undefined,
   it |-> 0, i |-> 0, idx |-> 0, first |-> TRUE, x |-> Undefined,
   yielded |-> <<>>, inner |-> <<>>, j |-> 0, pc |-> "loop", depth |-> 0]

\* pulls one generator may make upstream inside a single next() before it is
\* known to spin forever (every finite skip and every periodic source is shorter)
Fuel == 2 * (MaxLen + MaxN) + 8

\* next() calls after which a terminal is left running: enough for every finite
\* chain here to finish (2 * MaxLen elements and the final step, or MaxN and it)
PullCap == IF 2 * MaxLen > MaxN THEN 2 * MaxLen + 1 ELSE MaxN + 1

\* what travels through a pull: the pipeline, and the outcome of the last next()
Machine(e, c, s, k) ==
  [engine |-> e, chain |-> c, srcs |-> s, calls |-> k,
   it |-> 0, done |-> FALSE, value |-> Undefined, err |-> "none"]

Yield(st, lvl, v) ==
  [st EXCEPT !.chain[lvl].state = "suspendedYield", !.done = FALSE, !.value = v]
Finish(st, lvl) ==
  [st EXCEPT !.chain[lvl].state = "closed", !.done = TRUE, !.value = Undefined]
Throw(st, lvl, e) ==
  [st EXCEPT !.chain[lvl].state = "closed", !.done = TRUE, !.value = Undefined, !.err = e]
Call(st, f, x) == [st EXCEPT !.calls = Append(@, <<f, x>>)]

\* next() of a source every for...of restarts, generators like arrays
SrcNextRestartable(st, i, it) ==
  LET s == st.srcs[i] IN
  CASE s.kind \in {"array", "generator", "asyncgen"} ->
         IF it < Len(s.data)
         THEN [st EXCEPT !.srcs[i].pulls = @ + 1, !.it = it + 1,
                         !.done = FALSE, !.value = s.data[it + 1]]
         ELSE [st EXCEPT !.it = it, !.done = TRUE, !.value = Undefined]
    [] OTHER -> [st EXCEPT !.it = it, !.done = TRUE, !.value = Undefined, !.err = "TypeError"]

\* next() of the iterator over source i: an array iterator (whose index `it` the
\* consumer holds) or the generator object itself
SrcNext(st, i, it) ==
  LET s == st.srcs[i] IN
  CASE s.kind = "array" ->
         IF it < Len(s.data)
         THEN [st EXCEPT !.srcs[i].pulls = @ + 1, !.it = it + 1,
                         !.done = FALSE, !.value = s.data[it + 1]]
         ELSE [st EXCEPT !.it = it, !.done = TRUE, !.value = Undefined]
    [] s.kind \in {"generator", "asyncgen"} ->
         IF ~s.closed /\ s.pos < Len(s.data)
         THEN [st EXCEPT !.srcs[i].pulls = @ + 1, !.srcs[i].pos = @ + 1, !.it = it,
                         !.done = FALSE, !.value = s.data[s.pos + 1]]
         ELSE [st EXCEPT !.srcs[i].closed = TRUE, !.it = it,
                         !.done = TRUE, !.value = Undefined]
    [] s.kind = "positives" ->
         IF ~s.closed
         THEN [st EXCEPT !.srcs[i].pulls = @ + 1, !.srcs[i].pos = @ + 1, !.it = it,
                         !.done = FALSE, !.value = Num(s.pos + 1)]
         ELSE [st EXCEPT !.it = it, !.done = TRUE, !.value = Undefined]
    [] OTHER -> [st EXCEPT !.it = it, !.done = TRUE, !.value = Undefined, !.err = "TypeError"]

\* whether frame g is suspended at a yield inside its for...of
InForOf(g) ==
  g.state = "suspendedYield" /\ g.op # "zip" /\ ~(g.op = "loop" /\ g.pc = "repeat")

\* iterator.return() on what sits at level lvl (0: the source): leaving a for...of
\* early closes its iterator, and a generator closed inside its own for...of
\* closes the one below it.  Array iterators have no return method.
RECURSIVE Return(_, _)
Return(st, lvl) ==
  IF lvl = 0
  THEN IF HasNext(st.srcs[1]) THEN [st EXCEPT !.srcs[1].closed = TRUE] ELSE st
  ELSE LET g == st.chain[lvl]
           st1 == [st EXCEPT !.chain[lvl].state = "closed"]
       IN IF InForOf(g) THEN Return(st1, lvl - 1) ELSE st1

(* ---------------------------- combinators ----------------------------- *)
RECURSIVE GenNext(_, _, _)

\* iterator.next() as zip calls it on its first argument: the thing below frame lvl
\* must have a next method of its own
DirectNext(st, lvl, fuel) ==
  IF lvl = 1
  THEN IF HasNext(st.srcs[1]) THEN SrcNext(st, 1, 0) ELSE [st EXCEPT !.err = "TypeError"]
  ELSE GenNext(st, lvl - 1, fuel)

\* one turn of "for (const x of iter)" in the consumer at level lvl, whose array
\* iterator (if iter is an array) stands at index it
ForOf(st, lvl, it, fuel) ==
  IF lvl = 1
  THEN IF Iterable(st.engine, st.srcs[1]) THEN SrcNext(st, 1, it)
       ELSE [st EXCEPT !.err = "TypeError"]
  ELSE [GenNext(st, lvl - 1, fuel) EXCEPT !.it = it]

\* take that lets one element more through (i <= n)
takeInclusive(st, lvl, fuel) ==
  LET g == st.chain[lvl]
      r == ForOf(st, lvl, g.it, fuel)
  IN IF r.err # "none" THEN Throw(r, lvl, r.err)
     ELSE IF r.done THEN Finish(r, lvl)
     ELSE IF g.i <= g.n
          THEN Yield([r EXCEPT !.chain[lvl].it = r.it, !.chain[lvl].i = g.i + 1], lvl, r.value)
          ELSE Finish(Return([r EXCEPT !.chain[lvl].it = r.it], lvl - 1), lvl)

RECURSIVE take(_, _, _)
take(st, lvl, fuel) ==
  LET g == st.chain[lvl]
      r == ForOf(st, lvl, g.it, fuel)
  IN IF r.err # "none" THEN Throw(r, lvl, r.err)
     ELSE IF r.done THEN Finish(r, lvl)
     ELSE IF g.i < g.n
          THEN Yield([r EXCEPT !.chain[lvl].it = r.it, !.chain[lvl].i = g.i + 1], lvl, r.value)
          ELSE Finish(Return([r EXCEPT !.chain[lvl].it = r.it], lvl - 1), lvl)

\* skip that drops one element fewer (i >= n)
RECURSIVE skipInclusive(_, _, _)
skipInclusive(st, lvl, fuel) ==
  LET g == st.chain[lvl]
      r == ForOf(st, lvl, g.it, fuel)
  IN IF fuel = 0 THEN Throw(st, lvl, "hang")
     ELSE IF r.err # "none" THEN Throw(r, lvl, r.err)
     ELSE IF r.done THEN Finish(r, lvl)
     ELSE LET r1 == [r EXCEPT !.chain[lvl].it = r.it, !.chain[lvl].i = g.i + 1]
          IN IF g.i + 1 >= g.n THEN Yield(r1, lvl, r.value)
             ELSE skipInclusive(r1, lvl, fuel - 1)

RECURSIVE skip(_, _, _)
skip(st, lvl, fuel) ==
  LET g == st.chain[lvl]
      r == ForOf(st, lvl, g.it, fuel)
  IN IF fuel = 0 THEN Throw(st, lvl, "hang")
     ELSE IF r.err # "none" THEN Throw(r, lvl, r.err)
     ELSE IF r.done THEN Finish(r, lvl)
     ELSE LET r1 == [r EXCEPT !.chain[lvl].it = r.it, !.chain[lvl].i = g.i + 1]
          IN IF g.i + 1 > g.n THEN Yield(r1, lvl, r.value)
             ELSE skip(r1, lvl, fuel - 1)

map(st, lvl, fuel) ==
  LET g == st.chain[lvl]
      r == ForOf(st, lvl, g.it, fuel)
  IN IF r.err # "none" THEN Throw(r, lvl, r.err)
     ELSE IF r.done THEN Finish(r, lvl)
     ELSE Yield(Call([r EXCEPT !.chain[lvl].it = r.it], g.f, r.value), lvl, F(g.f, r.value))

RECURSIVE filter(_, _, _)
filter(st, lvl, fuel) ==
  LET g == st.chain[lvl]
      r == ForOf(st, lvl, g.it, fuel)
  IN IF fuel = 0 THEN Throw(st, lvl, "hang")
     ELSE IF r.err # "none" THEN Throw(r, lvl, r.err)
     ELSE IF r.done THEN Finish(r, lvl)
     ELSE LET r1 == Call([r EXCEPT !.chain[lvl].it = r.it], g.f, r.value)
          IN IF P(g.f, r.value) THEN Yield(r1, lvl, r.value)
             ELSE filter(r1, lvl, fuel - 1)

use(st, lvl, fuel) ==
  LET g == st.chain[lvl]
      r == ForOf(st, lvl, g.it, fuel)
  IN IF r.err # "none" THEN Throw(r, lvl, r.err)
     ELSE IF r.done THEN Finish(r, lvl)
     ELSE Yield(Call([r EXCEPT !.chain[lvl].it = r.it], g.f, r.value), lvl, r.value)

\* "yield* x.iter" for a wrapper, "yield* x" otherwise (for await ... yield y in
\* the asynchronous flatten): the sequence delegated to, or a TypeError when it is
\* not iterable.  st is the state after x was pulled.
\* delegation without the instanceof test: "yield* x" for every x
DelegateRaw(st, lvl, x) ==
  LET target == x
  IN IF IsArr(target)
     THEN [st EXCEPT !.chain[lvl].inner = target.arr, !.chain[lvl].j = 0,
                     !.chain[lvl].pc = "inner"]
     ELSE Throw(Return(st, lvl - 1), lvl, "TypeError")

Delegate(st, lvl, x) ==
  LET target == IF IsWrapper(x) THEN x.iter ELSE x
  IN IF IsArr(target)
     THEN [st EXCEPT !.chain[lvl].inner = target.arr, !.chain[lvl].j = 0,
                     !.chain[lvl].pc = "inner"]
     ELSE Throw(Return(st, lvl - 1), lvl, "TypeError")

RECURSIVE flatten(_, _, _)
flatten(st, lvl, fuel) ==
  LET g == st.chain[lvl] IN
  IF fuel = 0 THEN Throw(st, lvl, "hang")
  ELSE IF g.pc = "inner"
  THEN IF g.j < Len(g.inner)
       THEN Yield([st EXCEPT !.chain[lvl].j = g.j + 1], lvl, g.inner[g.j + 1])
       ELSE flatten([st EXCEPT !.chain[lvl].pc = "loop"], lvl, fuel - 1)
  ELSE LET r == ForOf(st, lvl, g.it, fuel)
       IN IF r.err # "none" THEN Throw(r, lvl, r.err)
          ELSE IF r.done THEN Finish(r, lvl)
          ELSE LET d == Delegate([r EXCEPT !.chain[lvl].it = r.it], lvl, r.value)
               IN IF d.err # "none" THEN d ELSE flatten(d, lvl, fuel - 1)

\* loop whose repeat phase starts every cycle over without advancing
RECURSIVE loopStuck(_, _, _)
loopStuck(st, lvl, fuel) ==
  LET g == st.chain[lvl] IN
  IF g.pc = "repeat"
  THEN IF Len(g.yielded) = 0 THEN Throw(st, lvl, "hang")
       ELSE Yield(st, lvl, g.yielded[1])
  ELSE LET r == ForOf(st, lvl, g.it, fuel)
       IN IF r.err # "none" THEN Throw(r, lvl, r.err)
          ELSE IF r.done
               THEN loopStuck([r EXCEPT !.chain[lvl].pc = "repeat"], lvl, fuel)
               ELSE Yield([r EXCEPT !.chain[lvl].it = r.it,
                                    !.chain[lvl].yielded = Append(g.yielded, r.value)],
                          lvl, r.value)

\* the second variant spins in "while (true) { yield* yielded; }"; the first
\* re-enters loop(yielded), one generator deeper per cycle
RECURSIVE loop(_, _, _)
loop(st, lvl, fuel) ==
  LET g == st.chain[lvl] IN
  IF g.pc = "repeat"
  THEN IF Len(g.yielded) = 0
       THEN Throw(st, lvl, IF st.engine = "legacy" THEN "RangeError" ELSE "hang")
       ELSE Yield([st EXCEPT !.chain[lvl].j = (g.j + 1) % Len(g.yielded),
                             !.chain[lvl].depth =
                                IF st.engine = "legacy" /\ g.j = 0 THEN g.depth + 1 ELSE g.depth],
                  lvl, g.yielded[g.j + 1])
  ELSE LET r == ForOf(st, lvl, g.it, fuel)
       IN IF r.err # "none" THEN Throw(r, lvl, r.err)
          ELSE IF r.done
               THEN loop([r EXCEPT !.chain[lvl].pc = "repeat", !.chain[lvl].j = 0], lvl, fuel)
               ELSE Yield([r EXCEPT !.chain[lvl].it = r.it,
                                    !.chain[lvl].yielded = Append(g.yielded, r.value)],
                          lvl, r.value)

\* the argument flatMap hands to f: the element x in the synchronous engine,
\* the iterator itself ("f(iter)") in the asynchronous one
flatMapArg(e, x) == IF e = "async" THEN IterObj ELSE x

RECURSIVE flatMap(_, _, _)
flatMap(st, lvl, fuel) ==
  LET g == st.chain[lvl] IN
  IF fuel = 0 THEN Throw(st, lvl, "hang")
  ELSE IF g.pc = "inner"
  THEN IF g.j < Len(g.inner)
       THEN Yield([st EXCEPT !.chain[lvl].j = g.j + 1], lvl, g.inner[g.j + 1])
       ELSE flatMap([st EXCEPT !.chain[lvl].pc = "loop"], lvl, fuel - 1)
  ELSE LET r == ForOf(st, lvl, g.it, fuel)
       IN IF r.err # "none" THEN Throw(r, lvl, r.err)
          ELSE IF r.done THEN Finish(r, lvl)
          ELSE LET a == flatMapArg(st.engine, r.value)
                   d == Delegate(Call([r EXCEPT !.chain[lvl].it = r.it], g.f, a), lvl, F(g.f, a))
               IN IF d.err # "none" THEN d ELSE flatMap(d, lvl, fuel - 1)

\* "a !== undefined && b !== undefined" on the two step objects
zipBoth(a, b) == a # Undefined /\ b # Undefined

zip(st, lvl, fuel) ==
  LET ra == DirectNext(st, lvl, fuel)
      a == IterResult(ra.done, ra.value)
      rb == IF HasNext(ra.srcs[2]) THEN SrcNext(ra, 2, 0) ELSE [ra EXCEPT !.err = "TypeError"]
      b == IterResult(rb.done, rb.value)
  IN IF ra.err # "none" THEN Throw(ra, lvl, ra.err)
     ELSE IF rb.err # "none" THEN Throw(rb, lvl, rb.err)
     ELSE IF zipBoth(a, b) THEN Yield(rb, lvl, Arr(<<a.value, b.value>>))
     ELSE Finish(rb, lvl)

intersperse(st, lvl, fuel) ==
  LET g == st.chain[lvl] IN
  IF g.pc = "delim"
  THEN Yield([st EXCEPT !.chain[lvl].pc = "loop", !.chain[lvl].first = FALSE], lvl, g.x)
  ELSE LET r == ForOf(st, lvl, g.it, fuel)
       IN IF r.err # "none" THEN Throw(r, lvl, r.err)
          ELSE IF r.done THEN Finish(r, lvl)
          ELSE IF ~g.first
               THEN Yield([r EXCEPT !.chain[lvl].it = r.it, !.chain[lvl].pc = "delim",
                                    !.chain[lvl].x = r.value], lvl, g.delim)
               ELSE Yield([r EXCEPT !.chain[lvl].it = r.it, !.chain[lvl].first = FALSE],
                          lvl, r.value)

enumerate(st, lvl, fuel) ==
  LET g == st.chain[lvl]
      r == ForOf(st, lvl, g.it, fuel)
  IN IF r.err # "none" THEN Throw(r, lvl, r.err)
     ELSE IF r.done THEN Finish(r, lvl)
     ELSE Yield([r EXCEPT !.chain[lvl].it = r.it, !.chain[lvl].idx = g.idx + 1],
                lvl, Arr(<<r.value, Num(g.idx)>>))

\* next() on the generator at level lvl: a closed generator is done; otherwise its
\* body runs to its next yield, its return or its throw
GenNext(st, lvl, fuel) ==
  LET g == st.chain[lvl] IN
  IF g.state = "closed" THEN [st EXCEPT !.done = TRUE, !.value = Undefined]
  ELSE CASE g.op = "take" -> take(st, lvl, fuel)
         [] g.op = "skip" -> skip(st, lvl, fuel)
         [] g.op = "map" -> map(st, lvl, fuel)
         [] g.op = "filter" -> filter(st, lvl, fuel)
         [] g.op = "use" -> use(st, lvl, fuel)
         [] g.op = "flatten" -> flatten(st, lvl, fuel)
         [] g.op = "loop" -> loop(st, lvl, fuel)
         [] g.op = "flatMap" -> flatMap(st, lvl, fuel)
         [] g.op = "zip" -> zip(st, lvl, fuel)
         [] g.op = "intersperse" -> intersperse(st, lvl, fuel)
         [] g.op = "enumerate" -> enumerate(st, lvl, fuel)

(* ------------------------- the wrapper classes ------------------------ *)
\* whether "new Iterator(iter)" / "new AsyncIterator(iter)" accepts iter; the
\* constructor of src/iter/sync.js stores whatever it is given
Constructs(e, s) ==
  CASE e = "sync" -> isIterator(s)
    [] e = "async" -> isAsyncIterator(s)
    [] OTHER -> TRUE

\* the generator object a combinator call returns
GeneratorObject(e) == Source(IF e = "async" THEN "asyncgen" ELSE "generator", <<>>)

\* the methods the class of engine e has
HasMethod(e, m) ==
  e # "legacy" \/ m \notin {"flatMap", "zip", "zipWith", "first", "intersperse", "enumerate"}

\* iterator(iter) / asyncIterator(iter): the entry constructors
iterator(e, s, other) ==
  /\ phase = "new"
  /\ engine' = e
  /\ srcs' = <<s, other>>
  /\ IF Constructs(e, s)
     THEN phase' = "build" /\ thrown' = "none"
     ELSE phase' = "failed" /\ thrown' = "Error"
  /\ UNCHANGED <<chain, term, result, calls>>

\* an intermediate method: "return iterator(op(this.iter, ...))" wraps the new,
\* not yet started, generator; nothing is pulled
Intermediate(m, frames) ==
  /\ phase = "build"
  /\ IF HasMethod(engine, m) /\ Constructs(engine, GeneratorObject(engine))
     THEN chain' = chain \o frames /\ UNCHANGED <<phase, thrown>>
     ELSE phase' = "done" /\ thrown' = "TypeError" /\ UNCHANGED chain
  /\ UNCHANGED <<engine, srcs, term, result, calls>>

\* use written so that the new generator is started when the method is called
IteratorUseEager(f) ==
  /\ phase = "build"
  /\ LET c == chain \o <<[Generator("use") EXCEPT !.f = f]>>
         r == GenNext(Machine(engine, c, srcs, calls), Len(c), Fuel)
     IN chain' = r.chain /\ srcs' = r.srcs /\ calls' = r.calls
  /\ UNCHANGED <<engine, phase, term, result, thrown>>

IteratorUse(f) == Intermediate("use", <<[Generator("use") EXCEPT !.f = f]>>)
IteratorTake(n) == Intermediate("take", <<[Generator("take") EXCEPT !.n = n]>>)
IteratorSkip(n) == Intermediate("skip", <<[Generator("skip") EXCEPT !.n = n]>>)
IteratorMap(f) == Intermediate("map", <<[Generator("map") EXCEPT !.f = f]>>)
IteratorFlatMap(f) == Intermediate("flatMap", <<[Generator("flatMap") EXCEPT !.f = f]>>)
IteratorFilter(p) == Intermediate("filter", <<[Generator("filter") EXCEPT !.f = p]>>)
IteratorFlatten == Intermediate("flatten", <<Generator("flatten")>>)
IteratorLoop == Intermediate("loop", <<Generator("loop")>>)
\* zip(iter): "iter instanceof Iterator ? iter.iter : iter" is srcs[2] either way
IteratorZip == Intermediate("zip", <<Generator("zip")>>)
\* zipWith(iter, f): this.zip(iter).map(([a, b]) => f(a, b))
IteratorZipWith(f) ==
  Intermediate("zipWith", <<Generator("zip"), [Generator("map") EXCEPT !.f = f]>>)
IteratorIntersperse(delim) ==
  Intermediate("intersperse", <<[Generator("intersperse") EXCEPT !.delim = delim]>>)
IteratorEnumerate == Intermediate("enumerate", <<Generator("enumerate")>>)

(* ------------------------- terminal operations ------------------------ *)
\* the locals of a terminal method: it (its for...of array iterator), collected,
\* val; steps counts its next() calls; detached marks a collect() nobody awaits
Terminal(op) ==
  [op |-> op, f |-> "none", n |-> 0, it |-> 0, collected |-> <<>>, val |-> Undefined,
   steps |-> 0, detached |-> FALSE, finished |-> FALSE]

NoTerminal == Terminal("none")

\* a terminal method is called: its loop has not pulled yet.  frames are the
\* generators the method itself stacks on this.iter (count, nth)
Start(t, frames) ==
  /\ phase = "build"
  /\ IF HasMethod(engine, t.op)
     THEN /\ phase' = "running" /\ term' = t /\ chain' = chain \o frames
          /\ UNCHANGED <<result, thrown>>
     ELSE /\ phase' = "done" /\ thrown' = "TypeError"
          /\ UNCHANGED <<term, chain, result>>
  /\ UNCHANGED <<engine, srcs, calls>>

IteratorCollect == Start(Terminal("collect"), <<>>)
IteratorFold(init, reducer) ==
  Start([Terminal("fold") EXCEPT !.val = init, !.f = reducer], <<>>)
\* sum(): this.fold(0, (sum, x) => sum + x)
IteratorSum == Start([Terminal("sum") EXCEPT !.val = Num(0)], <<>>)
\* count(): this.map(_ => 1).sum()
IteratorCount ==
  Start([Terminal("count") EXCEPT !.val = Num(0)], <<[Generator("map") EXCEPT !.f = "one"]>>)
IteratorForEach(f) == Start([Terminal("forEach") EXCEPT !.f = f], <<>>)
IteratorAny(p) == Start([Terminal("any") EXCEPT !.f = p], <<>>)
IteratorAll(p) == Start([Terminal("all") EXCEPT !.f = p], <<>>)
IteratorFirst == Start(Terminal("first"), <<>>)

\* what "this.skip(n).take(1).collect()[0]" evaluates to once collect() has
\* produced `collected`: its first element in the synchronous engines; in the
\* asynchronous one the index is applied to the promise, before the await
nthValue(e, collected) ==
  IF e = "async" THEN Undefined
  ELSE IF Len(collected) > 0 THEN collected[1] ELSE Undefined

\* nth(n): undefined at once for n < 0, else skip(n).take(1).collect()[0]; the
\* asynchronous nth returns without waiting for the collect() it started
IteratorNth(n) ==
  /\ phase = "build"
  /\ IF n < 0
     THEN /\ phase' = "done" /\ result' = Undefined
          /\ term' = [Terminal("nth") EXCEPT !.n = n, !.finished = TRUE]
          /\ UNCHANGED chain
     ELSE /\ chain' = chain \o <<[Generator("skip") EXCEPT !.n = n],
                                 [Generator("take") EXCEPT !.n = 1]>>
          /\ IF engine = "async"
             THEN /\ phase' = "done" /\ result' = nthValue(engine, <<>>)
                  /\ term' = [Terminal("nth") EXCEPT !.n = n, !.detached = TRUE]
             ELSE /\ phase' = "running" /\ result' = result
                  /\ term' = [Terminal("nth") EXCEPT !.n = n]
  /\ UNCHANGED <<engine, srcs, calls, thrown>>

\* what one turn of a terminal's loop comes to: the loop goes on with locals t, or
\* the method returns v
Continue(st, t) == [st |-> st, term |-> t, returned |-> FALSE, result |-> Undefined]
Returns(st, t, v) == [st |-> st, term |-> t, returned |-> TRUE, result |-> v]

\* the loop bodies of the terminal methods, for the step r that next() returned
collect(t, r) ==
  IF r.done
  THEN Returns(r, t, IF t.op = "nth" THEN nthValue(r.engine, t.collected) ELSE Arr(t.collected))
  ELSE Continue(r, [t EXCEPT !.collected = Append(@, r.value)])

fold(t, r) ==
  IF r.done THEN Returns(r, t, t.val)
  ELSE Continue(IF t.op = "fold" THEN Call(r, t.f, r.value) ELSE r,
                [t EXCEPT !.val = Plus(@, r.value)])

forEach(t, r) ==
  IF r.done THEN Returns(r, t, Undefined) ELSE Continue(Call(r, t.f, r.value), t)

\* any that tests every element and answers at the end
anyToTheEnd(t, r) ==
  IF r.done THEN Returns(r, t, Bool(t.val = Bool(TRUE)))
  ELSE Continue(Call(r, t.f, r.value),
                IF P(t.f, r.value) THEN [t EXCEPT !.val = Bool(TRUE)] ELSE t)

any(t, r) ==
  IF r.done THEN Returns(r, t, Bool(FALSE))
  ELSE IF P(t.f, r.value)
       THEN Returns(Return(Call(r, t.f, r.value), Len(r.chain)), t, Bool(TRUE))
       ELSE Continue(Call(r, t.f, r.value), t)

\* all written with the test of any
allAsAny(t, r) == any(t, r)

all(t, r) ==
  IF r.done THEN Returns(r, t, Bool(TRUE))
  ELSE IF ~P(t.f, r.value)
       THEN Returns(Return(Call(r, t.f, r.value), Len(r.chain)), t, Bool(FALSE))
       ELSE Continue(Call(r, t.f, r.value), t)

first(t, r) ==
  IF r.done THEN Returns(r, t, Undefined)
  ELSE Returns(Return(r, Len(r.chain)), t, r.value)

\* an error escaping next() ends the method; otherwise its loop body runs
Outcome(t, r) ==
  IF r.err # "none" THEN Returns(r, t, Undefined)
  ELSE CASE t.op \in {"collect", "nth"} -> collect(t, r)
         [] t.op \in {"fold", "sum", "count"} -> fold(t, r)
         [] t.op = "forEach" -> forEach(t, r)
         [] t.op = "any" -> any(t, r)
         [] t.op = "all" -> all(t, r)
         [] t.op = "first" -> first(t, r)

\* one turn of the terminal's "for (const x of this.iter)": a next() on the top
\* of the chain, then the loop body
Pull ==
  /\ phase = "running" \/ (phase = "done" /\ term.detached /\ ~term.finished)
  /\ term.steps < PullCap
  /\ LET r == ForOf(Machine(engine, chain, srcs, calls), Len(chain) + 1, term.it, Fuel)
         o == Outcome([term EXCEPT !.it = r.it, !.steps = @ + 1], r)
     IN /\ chain' = o.st.chain
        /\ srcs' = o.st.srcs
        /\ calls' = o.st.calls
        /\ term' = [o.term EXCEPT !.finished = o.returned]
        /\ IF term.detached
           THEN UNCHANGED <<phase, result, thrown>>
           ELSE /\ phase' = IF ~o.returned THEN "running"
                            ELSE IF o.st.err = "hang" THEN "hung" ELSE "done"
                /\ result' = IF o.returned THEN o.result ELSE result
                /\ thrown' = o.st.err
  /\ UNCHANGED engine

(* ------------------------------ inputs -------------------------------- *)
Nums == {Num(i) : i \in 1..MaxElem}
SeqsUpTo(S, n) == UNION {[1..k -> S] : k \in 0..n}
\* 1, 2, ..., k
Prefix(k) == [i \in 1..k |-> Num(i)]

Engines == {"sync", "legacy", "async"}
\* the kinds of source the entry constructor of engine e is meant for
Kinds(e) == IF e = "async" THEN {"asyncgen"} ELSE {"array", "generator"}
\* a generator (asynchronous for the asynchronous engine) yielding data
GeneratorOf(e, data) == Source(IF e = "async" THEN "asyncgen" ELSE "generator", data)

Init ==
  /\ engine = "none"
  /\ srcs = <<NoSource, NoSource>>
  /\ chain = <<>>
  /\ phase = "new"
  /\ term = NoTerminal
  /\ result = Undefined
  /\ calls = <<>>
  /\ thrown = "none"

(* ---------------- Spec: every chain, every terminal ------------------- *)
\* one source per kind each entry constructor is meant for, and one of nested
\* arrays for flatten
ChainSources(e) ==
  {Source(k, Prefix(MaxLen)) : k \in Kinds(e)}
    \cup (IF e = "sync" THEN {Source("array", <<Arr(Prefix(MaxLen)), Arr(<<>>)>>)} ELSE {})

Wrap ==
  \E e \in Engines : \E s \in ChainSources(e) : iterator(e, s, GeneratorOf(e, Prefix(1)))

Next ==
  \/ Wrap
  \/ Len(chain) < MaxChain /\ IteratorUse("tick")
  \/ Len(chain) < MaxChain /\ IteratorTake(1)
  \/ Len(chain) < MaxChain /\ IteratorSkip(1)
  \/ Len(chain) < MaxChain /\ IteratorMap("inc")
  \/ Len(chain) < MaxChain /\ IteratorFilter("odd")
  \/ Len(chain) < MaxChain /\ IteratorFlatten
  \/ Len(chain) < MaxChain /\ IteratorFlatMap("dup")
  \/ Len(chain) < MaxChain /\ IteratorLoop
  \/ Len(chain) < MaxChain /\ IteratorZip
  \/ Len(chain) < MaxChain /\ IteratorZipWith("add")
  \/ Len(chain) < MaxChain /\ IteratorIntersperse(Num(0))
  \/ Len(chain) < MaxChain /\ IteratorEnumerate
  \/ IteratorCollect
  \/ IteratorFold(Num(0), "plus")
  \/ IteratorSum
  \/ IteratorCount
  \/ IteratorForEach("tick")
  \/ IteratorAny("even")
  \/ IteratorAll("odd")
  \/ IteratorFirst
  \/ IteratorNth(1)
  \/ Pull

Spec == Init /\ [][Next]_vars

(* --- SpecTake: source -> [loop] -> take(n) | skip(n) -> collect, and nth(n) --- *)
\* every array and generator over 1..MaxElem up to MaxLen long, and the endless
\* generator positives()
TakeSources(e) ==
  {Source(k, d) : k \in Kinds(e), d \in SeqsUpTo(Nums, MaxLen)}
    \cup (IF e = "async" THEN {} ELSE {Source("positives", <<>>)})

WrapTake ==
  \E e \in Engines : \E s \in TakeSources(e) : iterator(e, s, NoSource)

\* the chain ends in a take or a skip
Sliced == Len(chain) > 0 /\ chain[Len(chain)].op \in {"take", "skip"}

NextTake ==
  \/ WrapTake
  \/ chain = <<>> /\ srcs[1].kind # "positives" /\ IteratorLoop
  \/ \E n \in -1..MaxN : ~Sliced /\ IteratorTake(n)
  \/ \E n \in 0..MaxN : ~Sliced /\ chain = <<>> /\ IteratorSkip(n)
  \/ Sliced /\ IteratorCollect
  \/ \E n \in -1..MaxN : chain = <<>> /\ IteratorNth(n)
  \/ Pull

SpecTake == Init /\ [][NextTake]_vars

(* ---------------- SpecZip: A.zip(B).collect() ------------------------- *)
ZipSources(e) == {Source(k, d) : k \in Kinds(e), d \in SeqsUpTo(Nums, MaxLen)}

WrapZip ==
  \E e \in {"sync", "async"} : \E a \in ZipSources(e), b \in ZipSources(e) : iterator(e, a, b)

NextZip ==
  \/ WrapZip
  \/ chain = <<>> /\ IteratorZip
  \/ chain # <<>> /\ IteratorCollect
  \/ Pull

SpecZip == Init /\ [][NextZip]_vars

(* ------- SpecFlat: flatMap(f), and map(f) then flatten(), collected ------- *)
FlatSources(e) == {Source(k, d) : k \in Kinds(e), d \in SeqsUpTo(Nums, MaxLen)}

WrapFlat ==
  \E e \in {"sync", "async"} : \E s \in FlatSources(e) : iterator(e, s, NoSource)

NextFlat ==
  \/ WrapFlat
  \/ \E f \in {"dup", "wrapdup"} : chain = <<>> /\ IteratorFlatMap(f)
  \/ \E f \in {"dup", "wrapdup"} : chain = <<>> /\ IteratorMap(f)
  \/ Len(chain) = 1 /\ chain[1].op = "map" /\ IteratorFlatten
  \/ chain # <<>> /\ chain[Len(chain)].op # "map" /\ IteratorCollect
  \/ Pull

SpecFlat == Init /\ [][NextFlat]_vars

(* ------------- SpecWrap: the entry constructors on any value ------------- *)
\* null, a number, a plain object, a wrapper over an array, and arrays and
\* generators of numbers or of one wrapped array
Candidates ==
  {Source(k, <<>>) : k \in {"null", "number", "object"}}
    \cup {Source("wrapper", d) : d \in SeqsUpTo(Nums, MaxLen)}
    \cup {Source(k, d) : k \in {"array", "generator", "asyncgen"}, d \in SeqsUpTo(Nums, MaxLen)}
    \cup {Source(k, <<Wrapper(Arr(d))>>) :
            k \in {"array", "generator", "asyncgen"}, d \in SeqsUpTo(Nums, MaxLen)}

WrapAny ==
  \E e \in Engines : \E s \in Candidates : iterator(e, s, NoSource)

NextWrap ==
  \/ WrapAny
  \/ chain = <<>> /\ IteratorFlatten
  \/ IteratorCollect
  \/ Pull

SpecWrap == Init /\ [][NextWrap]_vars

(* ------ SpecShort: source -> use(tick)* -> any(p) | all(p) ------------- *)
Predicates == {"even", "odd", "gt1", "true", "false"}

WrapShort ==
  \E e \in Engines : \E s \in TakeSources(e) : iterator(e, s, NoSource)

NextShort ==
  \/ WrapShort
  \/ Len(chain) < MaxChain /\ IteratorUse("tick")
  \/ \E p \in Predicates : IteratorAny(p)
  \/ \E p \in Predicates : IteratorAll(p)
  \/ Pull

SpecShort == Init /\ [][NextShort]_vars

(* ------ SpecNested: source of sequences -> flatten() -> collect() ------ *)
\* an inner sequence: an array 1..k, raw or inside a wrapper
Inners == {Arr(Prefix(k)) : k \in 0..MaxLen} \cup {Wrapper(Arr(Prefix(k))) : k \in 0..MaxLen}

\* the elements of inner sequence x
InnerOf(x) == IF IsWrapper(x) THEN x.iter.arr ELSE x.arr

\* the concatenation of the first m inner sequences of d
RECURSIVE Concat(_, _)
Concat(d, m) == IF m = 0 THEN <<>> ELSE Concat(d, m - 1) \o InnerOf(d[m])

\* the nested sequences one terminal operation drains within PullCap pulls
NestedSeqs == {d \in SeqsUpTo(Inners, MaxLen) : Len(Concat(d, Len(d))) < PullCap}

NestedSources(e) == {Source(k, d) : k \in Kinds(e), d \in NestedSeqs}

WrapNested ==
  \E e \in Engines : \E s \in NestedSources(e) : iterator(e, s, NoSource)

NextNested ==
  \/ WrapNested
  \/ chain = <<>> /\ IteratorFlatten
  \/ chain # <<>> /\ IteratorCollect
  \/ Pull

SpecNested == Init /\ [][NextNested]_vars

(* --- SpecShare: two pipelines, or two terminal calls, over one source --- *)
\* the log entry that separates what the first pipeline was handed from what
\* the second is
Second == <<"second", Undefined>>
IsSecond == \E j \in 1..Len(calls) : calls[j] = Second

\* a second terminal method is called on the same wrapper, after the first one
\* returned: the same this.iter, a new for...of
Again ==
  /\ phase = "done" /\ thrown = "none" /\ ~IsSecond
  /\ phase' = "build"
  /\ term' = NoTerminal
  /\ calls' = Append(calls, Second)
  /\ UNCHANGED <<engine, srcs, chain, result, thrown>>

\* iterator(source) is called once more with the same source object; the first
\* pipeline is pulled no further
Another ==
  /\ phase \in {"running", "done"} /\ thrown = "none" /\ ~IsSecond
  /\ Constructs(engine, srcs[1])
  /\ phase' = "build"
  /\ chain' = <<>>
  /\ term' = NoTerminal
  /\ calls' = Append(calls, Second)
  /\ UNCHANGED <<engine, srcs, result, thrown>>

\* sources of distinct elements 1..k
ShareSources(e) == {Source(k, Prefix(n)) : k \in Kinds(e), n \in 0..MaxLen}

WrapShare ==
  \E e \in Engines : \E s \in ShareSources(e) : iterator(e, s, NoSource)

NextShare ==
  \/ WrapShare
  \/ Len(chain) < MaxChain /\ IteratorUse("tick")
  \/ IteratorForEach("log")
  \/ IteratorAny("gt1")
  \/ IteratorAll("even")
  \/ Again
  \/ Another
  \/ Pull

SpecShare == Init /\ [][NextShare]_vars

(* --- SpecAwait: the asynchronous zip and collect, one step per await --- *)
\* The log records, for source i, <<"next", i>> when next() is called on it and
\* <<"resolved", i>> when the promise it returned resolves, and <<"push", x>>
\* when collect pushes x.  The zip frame keeps the steps a and b of the round in
\* its field inner, and collect the pair it was handed in val.
Count(e, j) == Cardinality({k \in 1..j : calls[k] = e})
Outstanding(i) ==
  Count(<<"next", Num(i)>>, Len(calls)) - Count(<<"resolved", Num(i)>>, Len(calls))

Awaiting(pc) ==
  /\ engine = "async" /\ phase = "running"
  /\ Len(chain) = 1 /\ chain[1].op = "zip" /\ chain[1].pc = pc

\* "for await (const x of this.iter)" calls next() on the zip generator, whose
\* body runs up to "await iterA.next()"
zipAwaitA ==
  /\ Awaiting("loop") /\ term.steps < PullCap
  /\ chain' = [chain EXCEPT ![1].pc = "awaitA", ![1].inner = <<>>]
  /\ term' = [term EXCEPT !.steps = @ + 1]
  /\ calls' = Append(calls, <<"next", Num(1)>>)
  /\ UNCHANGED <<engine, srcs, phase, result, thrown>>

\* zip with "await Promise.all([iterA.next(), iterB.next()])": the second pull
\* starts while the first is outstanding
zipAwaitBoth ==
  /\ Awaiting("awaitA")
  /\ chain' = [chain EXCEPT ![1].pc = "awaitB"]
  /\ calls' = Append(calls, <<"next", Num(2)>>)
  /\ UNCHANGED <<engine, srcs, phase, term, result, thrown>>

\* a has resolved: the body goes on to "await iterB.next()"
zipAwaitB ==
  /\ Awaiting("awaitA") /\ Outstanding(1) = 0
  /\ chain' = [chain EXCEPT ![1].pc = "awaitB"]
  /\ calls' = Append(calls, <<"next", Num(2)>>)
  /\ UNCHANGED <<engine, srcs, phase, term, result, thrown>>

\* the asynchronous generator i settles the promise of its pending next()
asyncNext(i) ==
  /\ engine = "async" /\ phase = "running" /\ Outstanding(i) > 0
  /\ LET r == SrcNext(Machine(engine, chain, srcs, calls), i, 0)
     IN /\ srcs' = r.srcs
        /\ chain' = [chain EXCEPT ![1].inner = Append(@, IterResult(r.done, r.value))]
  /\ calls' = Append(calls, <<"resolved", Num(i)>>)
  /\ UNCHANGED <<engine, phase, term, result, thrown>>

\* b has resolved: "if (a !== undefined && b !== undefined) yield [a.value,
\* b.value]; else break"
zipYield ==
  /\ Awaiting("awaitB") /\ Outstanding(1) = 0 /\ Outstanding(2) = 0
  /\ LET a == chain[1].inner[1]
         b == chain[1].inner[2]
     IN IF zipBoth(a, b)
        THEN /\ chain' = [chain EXCEPT ![1].pc = "yield", ![1].state = "suspendedYield"]
             /\ term' = [term EXCEPT !.val = Arr(<<a.value, b.value>>)]
             /\ UNCHANGED <<phase, result>>
        ELSE /\ chain' = [chain EXCEPT ![1].pc = "loop", ![1].state = "closed"]
             /\ phase' = "done" /\ result' = Arr(term.collected)
             /\ UNCHANGED term
  /\ UNCHANGED <<engine, srcs, calls, thrown>>

\* the body of collect's loop: collected.push(x)
collectPush ==
  /\ Awaiting("yield")
  /\ chain' = [chain EXCEPT ![1].pc = "loop"]
  /\ term' = [term EXCEPT !.collected = Append(@, term.val), !.val = Undefined]
  /\ calls' = Append(calls, <<"push", term.val>>)
  /\ UNCHANGED <<engine, srcs, phase, result, thrown>>

WrapAwait ==
  \E a \in ZipSources("async"), b \in ZipSources("async") : iterator("async", a, b)

NextAwait ==
  \/ WrapAwait
  \/ chain = <<>> /\ IteratorZip
  \/ chain # <<>> /\ IteratorCollect
  \/ zipAwaitA
  \/ \E i \in {1, 2} : asyncNext(i)
  \/ zipAwaitB
  \/ zipYield
  \/ collectPush

SpecAwait == Init /\ [][NextAwait]_vars

(* ---------- SpecLoop: source -> loop() -> collect(), pull by pull -------- *)
LoopSources(e) == {Source(k, d) : k \in Kinds(e), d \in SeqsUpTo(Nums, MaxLen)}

WrapLoop ==
  \E e \in Engines : \E s \in LoopSources(e) : iterator(e, s, NoSource)

NextLoop ==
  \/ WrapLoop
  \/ chain = <<>> /\ IteratorLoop
  \/ chain # <<>> /\ IteratorCollect
  \/ Pull

SpecLoop == Init /\ [][NextLoop]_vars

(* ------------------------------ claims -------------------------------- *)
\* no generator of the chain has started
NotStarted == \A k \in 1..Len(chain) : chain[k].state = "suspendedStart"
\* no source has delivered an element or been advanced
Untouched ==
  \A i \in 1..2 : srcs[i].pulls = 0 /\ srcs[i].pos = 0 /\ ~srcs[i].closed

\* C1: laziness.  While a chain of intermediate operations is being built, and
\* until a terminal operation has been invoked on it, no element of any source
\* has been pulled, no generator of the chain has run and no user callback has
\* been invoked.
C1_Lazy ==
  phase \in {"new", "build", "failed"} => Untouched /\ NotStarted /\ calls = <<>>

\* a chain of MaxChain intermediate calls, the first a use(f), over a non-empty
\* source, with no terminal invoked yet
C1_Witness ==
  /\ phase = "build"
  /\ Len(chain) >= MaxChain
  /\ chain[1].op = "use"
  /\ Len(srcs[1].data) > 0

Max(a, b) == IF a > b THEN a ELSE b
Min(a, b) == IF a < b THEN a ELSE b

\* the chain is exactly source -> take(n)
TakeOnly == Len(chain) = 1 /\ chain[1].op = "take"

\* C2 (as claimed): take(n) never makes its source deliver more than max(n, 0)
\* elements, however far take(n) itself is consumed.
C2_NoOverPull ==
  TakeOnly => srcs[1].pulls <= Max(chain[1].n, 0)

\* the chain is exactly source -> loop() -> take(k), collected
LoopTake ==
  /\ Len(chain) = 2 /\ chain[1].op = "loop" /\ chain[2].op = "take"
  /\ term.op = "collect"
\* S repeated and cut to k elements: element i is S[((i - 1) mod L) + 1]
Cycled(S, k) == [i \in 1..Max(k, 0) |-> S[((i - 1) % Len(S)) + 1]]

\* C10: over a finite source S of length L >= 1, loop().take(k).collect()
\* returns after at most k + 1 pulls, without an error, and its result is S
\* repeated q times followed by the first r elements of S, k = qL + r.
C10_LoopTake ==
  LoopTake /\ Len(srcs[1].data) >= 1 =>
    /\ term.steps >= Max(chain[2].n, 0) + 1 => phase = "done"
    /\ phase \in {"running", "done"}
    /\ phase = "done" =>
         thrown = "none" /\ result = Arr(Cycled(srcs[1].data, chain[2].n))

\* a finished loop().take(2L + 1).collect() over S = <<a, b>>, a # b: S twice,
\* then a
C10_Witness ==
  /\ LoopTake /\ phase = "done"
  /\ Len(srcs[1].data) = 2
  /\ srcs[1].data[1] # srcs[1].data[2]
  /\ chain[2].n = 2 * Len(srcs[1].data) + 1
  /\ result = Arr(srcs[1].data \o srcs[1].data \o <<srcs[1].data[1]>>)

\* the chain is exactly A -> zip(B), collected
ZipOnly == Len(chain) = 1 /\ chain[1].op = "zip" /\ term.op = "collect"
\* the pairs (A[i], B[i]), i up to the shorter length
Zipped(A, B) == [i \in 1..Min(Len(A), Len(B)) |-> Arr(<<A[i], B[i]>>)]

\* C3 (as claimed): A.zip(B).collect() over finite A and B never holds more
\* than min(|A|, |B|) pairs, raises nothing, and has returned exactly the pairs
\* (A[i], B[i]) once zip has been pulled min(|A|, |B|) + 1 times.
C3_ZipStopsAtShorter ==
  ZipOnly =>
    LET m == Min(Len(srcs[1].data), Len(srcs[2].data)) IN
    /\ thrown = "none"
    /\ Len(term.collected) <= m
    /\ term.steps > m => phase = "done" /\ result = Arr(Zipped(srcs[1].data, srcs[2].data))

\* C4 (as claimed): in every engine, nth(n) over a finite source S returns S[n]
\* (zero-based) when 0 <= n < |S| and undefined otherwise.
C4_NthReturnsElement ==
  phase = "done" /\ term.op = "nth" /\ srcs[1].kind # "positives" =>
    /\ thrown = "none"
    /\ result = IF 0 <= term.n /\ term.n < Len(srcs[1].data)
                THEN srcs[1].data[term.n + 1] ELSE Undefined

\* collect() run to its end on the pipeline st: what it collects and the error
\* that ends it ("none" for a normal return)
RECURSIVE Collected(_, _, _, _)
Collected(st, it, acc, n) ==
  IF n = 0 THEN [collected |-> acc, err |-> "hang"]
  ELSE LET r == ForOf(st, Len(st.chain) + 1, it, Fuel)
       IN IF r.err # "none" THEN [collected |-> acc, err |-> r.err]
          ELSE IF r.done THEN [collected |-> acc, err |-> "none"]
          ELSE Collected(r, r.it, Append(acc, r.value), n - 1)

\* map(f).flatten().collect() on a fresh copy of source s in engine e
MapFlatten(e, s, f) ==
  Collected(Machine(e, <<[Generator("map") EXCEPT !.f = f], Generator("flatten")>>,
                    <<Source(s.kind, s.data), NoSource>>, <<>>),
            0, <<>>, PullCap)

\* the chain is exactly source -> flatMap(f), collected
FlatMapOnly == Len(chain) = 1 /\ chain[1].op = "flatMap" /\ term.op = "collect"

\* C5 (as claimed): in both engines flatMap(f).collect() over a finite source S
\* ends as map(f).flatten().collect() does and returns the same list, f having
\* been applied to each element of S once, in source order.
C5_FlatMapIsMapFlatten ==
  FlatMapOnly /\ phase = "done" =>
    LET ref == MapFlatten(engine, srcs[1], chain[1].f) IN
    /\ thrown = ref.err
    /\ result = Arr(ref.collected)
    /\ calls = [i \in 1..Len(srcs[1].data) |-> <<chain[1].f, srcs[1].data[i]>>]

\* the iteration capability the entry constructor of engine e asks for
Capable(e, s) == IF e = "async" THEN HasSymbolAsyncIterator(s) ELSE HasSymbolIterator(s)

\* C6 (as claimed): every entry constructor, given a value without the
\* capability it needs, raises its error in the constructor call and returns
\* no wrapper.
C6_ConstructionFails ==
  phase # "new" /\ ~Capable(engine, srcs[1]) => phase = "failed" /\ thrown = "Error"

\* C7 (as claimed): a wrapper w over S passes the capability check, so
\* iterator(w) constructs, and iterator(w).collect() returns S.
C7_WrapperIsSource ==
  phase # "new" /\ srcs[1].kind = "wrapper" =>
    /\ phase # "failed" /\ thrown = "none"
    /\ phase = "done" /\ chain = <<>> /\ term.op = "collect" => result = Arr(srcs[1].data)

\* the source is one wrapped array, flattened and collected
FlattenWrapped ==
  /\ Len(chain) = 1 /\ chain[1].op = "flatten" /\ term.op = "collect"
  /\ Len(srcs[1].data) = 1 /\ IsWrapper(srcs[1].data[1])

\* C7 (amended): a wrapper w over S is not itself a source.  The validating
\* constructors reject it with the construction error; the constructor of
\* src/iter/sync.js stores it, and the first pull then fails with a TypeError
\* before any element is delivered.  The elements of S are reached through
\* w.iter only, as flatten does for a wrapped inner element: flattening a
\* source whose one element is w yields S in order.
C7_WrapperIsNotSource ==
  /\ phase # "new" /\ srcs[1].kind = "wrapper" =>
       IF engine # "legacy"
       THEN phase = "failed" /\ thrown = "Error"
       ELSE /\ srcs[1].pulls = 0 /\ term.collected = <<>>
            /\ term.steps > 0 => phase = "done" /\ thrown = "TypeError"
  /\ FlattenWrapped /\ phase = "done" /\ Iterable(engine, srcs[1]) =>
       thrown = "none" /\ result = Arr(srcs[1].data[1].iter.arr)

\* iterator(w) for a wrapper w over a non-empty array has raised the
\* construction error
C7_Witness ==
  /\ engine = "sync" /\ srcs[1].kind = "wrapper" /\ Len(srcs[1].data) > 0
  /\ phase = "failed" /\ thrown = "Error"

\* the elements source s delivers, as far as a run can pull them
Elems(s) == IF s.kind = "positives" THEN [i \in 1..PullCap |-> Num(i)] ELSE s.data

\* x settles the answer of terminal op with predicate p
Determines(op, p, x) == IF op = "any" THEN P(p, x) ELSE ~P(p, x)

\* k + 1 for the index k of the first element of S that settles the answer, and
\* the length of S when none does
PullsNeeded(op, p, S) ==
  IF \E i \in 1..Len(S) : Determines(op, p, S[i])
  THEN CHOOSE i \in 1..Len(S) :
         /\ Determines(op, p, S[i])
         /\ \A j \in 1..(i - 1) : ~Determines(op, p, S[j])
  ELSE Len(S)

\* how many times callback f has run
Ran(f) == Cardinality({j \in 1..Len(calls) : calls[j][1] = f})

ShortCircuit == phase \in {"running", "done"} /\ term.op \in {"any", "all"}

\* C8: any(p) / all(p) never pull more than k + 1 source elements, k the index
\* of the first element that settles the answer, and have pulled exactly k + 1
\* when they return (the whole source when no element settles it); each
\* upstream use(f) and the predicate have run once per pulled element and not
\* for any later one.
C8_ShortCircuitPulls ==
  ShortCircuit =>
    LET need == PullsNeeded(term.op, term.f, Elems(srcs[1])) IN
    /\ srcs[1].pulls <= need
    /\ Ran("tick") <= need * Len(chain)
    /\ phase = "done" =>
         /\ thrown = "none"
         /\ srcs[1].pulls = need
         /\ Ran("tick") = need * Len(chain)
         /\ Ran(term.f) = need

\* any(p) behind a use(f) has returned after the first of several elements
C8_Witness ==
  /\ phase = "done" /\ term.op = "any" /\ Len(chain) >= 1
  /\ srcs[1].kind = "generator" /\ Len(srcs[1].data) >= 2
  /\ P(term.f, srcs[1].data[1])
  /\ srcs[1].pulls = 1 /\ Ran("tick") = Len(chain)

\* C9: any(p) returns true iff some element satisfies p, all(p) returns true
\* iff every element does; on an empty source any is false and all is true.
C9_AnyAllResult ==
  ShortCircuit /\ phase = "done" =>
    LET S == Elems(srcs[1]) IN
    /\ thrown = "none"
    /\ term.op = "any" => result = Bool(\E i \in 1..Len(S) : P(term.f, S[i]))
    /\ term.op = "all" => result = Bool(\A i \in 1..Len(S) : P(term.f, S[i]))

\* all(p) with a predicate that is never true has returned true on an empty
\* source
C9_Witness ==
  /\ phase = "done" /\ term.op = "all" /\ term.f = "false"
  /\ srcs[1].kind # "positives" /\ srcs[1].data = <<>>
  /\ result = Bool(TRUE)

\* S[from + 1 .. from + k]
Slice(S, from, k) == [i \in 1..k |-> S[from + i]]

\* C11: take(n).collect() returns, also over an endless source, after at most
\* min(max(n,0), |S|) + 1 pulls, without error, the first min(max(n,0), |S|)
\* elements of S in order.
C11_TakeResult ==
  TakeOnly /\ phase \notin {"new", "build"} =>
    LET S == Elems(srcs[1])
        k == Min(Max(chain[1].n, 0), Len(S)) IN
    /\ term.op = "collect" /\ phase \in {"running", "done"}
    /\ term.steps >= k + 1 => phase = "done"
    /\ phase = "done" => thrown = "none" /\ result = Arr(Slice(S, 0, k))

\* take(n).collect() over the endless positives() has returned 1..n, n >= 2
C11_Witness ==
  /\ TakeOnly /\ phase = "done" /\ srcs[1].kind = "positives"
  /\ chain[1].n >= 2 /\ result = Arr([i \in 1..chain[1].n |-> Num(i)])

\* the chain is exactly source -> skip(n)
SkipOnly == Len(chain) = 1 /\ chain[1].op = "skip"

\* C12: over a finite source and n >= 0, skip(n).collect() returns the
\* max(|S| - n, 0) elements of S from index n onward in order, nothing when
\* |S| <= n.
C12_SkipResult ==
  SkipOnly /\ phase \notin {"new", "build"} /\ srcs[1].kind # "positives" =>
    LET S == srcs[1].data
        n == chain[1].n IN
    /\ term.op = "collect" /\ phase \in {"running", "done"}
    /\ term.steps >= Max(Len(S) - n, 0) + 1 => phase = "done"
    /\ phase = "done" =>
         /\ thrown = "none"
         /\ result = Arr(Slice(S, n, Max(Len(S) - n, 0)))

\* skip(1).collect() over a source of two elements has returned the second
C12_Witness ==
  /\ SkipOnly /\ phase = "done" /\ chain[1].n = 1
  /\ Len(srcs[1].data) = 2 /\ result = Arr(<<srcs[1].data[2]>>)

\* the chain is exactly source -> flatten()
FlattenOnly == Len(chain) = 1 /\ chain[1].op = "flatten"

\* C13: over a finite source of finite sequences, raw or wrapped,
\* flatten().collect() returns the concatenation of the inner sequences in
\* source order, and the m-th outer element is pulled only when the m - 1
\* inner sequences before it have been delivered whole.
C13_FlattenConcat ==
  FlattenOnly /\ phase \notin {"new", "build"} =>
    LET d == srcs[1].data
        got == term.collected
        m == srcs[1].pulls IN
    /\ phase \in {"running", "done"} /\ thrown = "none"
    /\ got = Slice(Concat(d, Len(d)), 0, Len(got))
    /\ m > 0 => Len(Concat(d, m - 1)) <= Len(got)
    /\ Len(got) <= Len(Concat(d, m))
    /\ term.steps >= Len(Concat(d, Len(d))) + 1 => phase = "done"
    /\ phase = "done" => result = Arr(Concat(d, Len(d)))

\* flatten().collect() has returned the elements of a wrapped and of a raw
\* inner sequence, both non-empty
C13_Witness ==
  /\ FlattenOnly /\ phase = "done" /\ Len(srcs[1].data) = 2
  /\ IsWrapper(srcs[1].data[1]) /\ IsArr(srcs[1].data[2])
  /\ Len(InnerOf(srcs[1].data[1])) = 2 /\ Len(InnerOf(srcs[1].data[2])) = 1
  /\ result = Arr(<<Num(1), Num(2), Num(1)>>)

\* the index of the separating entry in the log, 0 when there is none
SecondAt == IF IsSecond THEN CHOOSE j \in 1..Len(calls) : calls[j] = Second ELSE 0

\* the elements handed to the callback of a terminal method in entries a..b of
\* the log
Handed(a, b) == {calls[j][2] : j \in {i \in a..b : calls[i][1] \in {"log", "gt1", "even"}}}
HandedFirst == Handed(1, SecondAt - 1)
HandedSecond == Handed(SecondAt + 1, Len(calls))

\* C14 (as claimed): for any source, an element delivered to one pipeline is
\* never delivered again to the other.
C14_NeverDeliveredAgain ==
  IsSecond => HandedFirst \cap HandedSecond = {}

\* the second consumer reads the array source itself
FreshTraversal ==
  /\ IsSecond /\ srcs[1].kind = "array" /\ chain = <<>>
  /\ phase = "done" /\ term.op = "forEach"

\* C14 (amended): a generator source is a single cursor: an element delivered to
\* one pipeline, or to one terminal call, is never delivered to the next, and
\* the source delivers each element once.  An array source is not: every
\* for...of over it starts again at the first element, so a second terminal
\* call on the wrapper of an array, or a second pipeline over the array, is
\* handed all of S, whatever the first one consumed.
C14_SharedCursor ==
  /\ IsSecond /\ srcs[1].kind \in {"generator", "asyncgen"} =>
       /\ HandedFirst \cap HandedSecond = {}
       /\ srcs[1].pulls <= Len(srcs[1].data)
  /\ FreshTraversal =>
       HandedSecond = {srcs[1].data[i] : i \in 1..Len(srcs[1].data)}

\* over a generator of two elements the first pipeline was handed the first
\* element and the second pipeline the second
C14_Witness ==
  /\ IsSecond /\ srcs[1].kind = "generator" /\ Len(srcs[1].data) = 2
  /\ HandedFirst = {Num(1)} /\ HandedSecond = {Num(2)}
  /\ phase = "done"

\* the rounds in which collect was handed a pair, in the first j entries of
\* the log
Pushed(j) == Cardinality({k \in 1..j : calls[k][1] = "push"})

\* C15: in the asynchronous zip, at most one pull is outstanding on either
\* source at any time; when next() is called on the second source the pull on
\* the first has resolved; and when next() is called on the first source every
\* pair yielded before has been consumed.
C15_Sequenced ==
  engine = "async" /\ Len(chain) = 1 /\ chain[1].op = "zip" =>
    /\ \A i \in {1, 2} : Outstanding(i) \in {0, 1}
    /\ \A j \in 1..Len(calls) :
         /\ calls[j] = <<"next", Num(2)>> =>
              /\ Count(<<"resolved", Num(1)>>, j) = Count(<<"next", Num(1)>>, j)
              /\ Count(<<"next", Num(1)>>, j) = Count(<<"next", Num(2)>>, j)
         /\ calls[j] = <<"next", Num(1)>> =>
              /\ Pushed(j) = Count(<<"next", Num(1)>>, j - 1)
              /\ Count(<<"resolved", Num(2)>>, j) = Count(<<"next", Num(1)>>, j - 1)

\* the second round of a zip has called next() on its second source
C15_Witness ==
  /\ engine = "async" /\ Len(chain) = 1 /\ chain[1].op = "zip"
  /\ chain[1].pc = "awaitB" /\ Outstanding(2) = 1
  /\ Count(<<"next", Num(2)>>, Len(calls)) = 2 /\ Pushed(Len(calls)) = 1

\* the first k turns of collect() on the pipeline st: what they collected, the
\* error that ended them ("none" when none did) and whether the loop has ended
RECURSIVE Pulled(_, _, _, _)
Pulled(st, it, acc, k) ==
  IF k = 0 THEN [collected |-> acc, err |-> "none", ended |-> FALSE]
  ELSE LET r == ForOf(st, Len(st.chain) + 1, it, Fuel)
       IN IF r.err # "none" THEN [collected |-> acc, err |-> r.err, ended |-> TRUE]
          ELSE IF r.done THEN [collected |-> acc, err |-> "none", ended |-> TRUE]
          ELSE Pulled(r, r.it, Append(acc, r.value), k - 1)

\* k pulls of the iterative loop (while (true)) over a fresh copy of source s
Iterative(s, k) ==
  Pulled(Machine("sync", <<Generator("loop")>>, <<Source(s.kind, s.data), NoSource>>, <<>>),
         0, <<>>, k)

\* the chain is exactly source -> loop(), collected
LoopOnly == Len(chain) = 1 /\ chain[1].op = "loop" /\ term.op = "collect"

\* C16 (as claimed): over equal finite sources the recursive loop and the
\* iterative loop give the same outcome at every pull: after k pulls the
\* recursive one has delivered the same elements, has ended or not, and has
\* failed or not, exactly as the iterative one after k pulls.
C16_LoopVariantsAgree ==
  engine = "legacy" /\ LoopOnly =>
    LET o == Iterative(srcs[1], term.steps) IN
    /\ term.collected = o.collected
    /\ thrown = o.err
    /\ (phase # "running") = o.ended

\* C17 (as claimed): over a source of zero elements loop().take(k).collect()
\* returns the empty list, at its first pull, for every k.
C17_EmptyLoopTerminates ==
  LoopTake /\ srcs[1].kind # "positives" /\ Len(srcs[1].data) = 0 =>
    /\ phase \in {"running", "done"}
    /\ term.steps >= 1 => phase = "done" /\ thrown = "none" /\ result = Arr(<<>>)
====
